---- MODULE Spec2Model ----
(***************************************************************************)
(* A model of plugins/modules/yedit.py: the path grammar, the tree         *)
(* navigator and mutator, the Yedit document engine, the write protocol    *)
(* of Yedit._write and the module entry point Yedit.run_ansible.           *)
(*                                                                         *)
(* Python values.  A document tree is a record [ty, sc, kids]:             *)
(*   ty   "dict" | "list" | "none" | "bool" | "int" | "str"                *)
(*   sc   the literal of a scalar ("True", "0", "d", ...), "" otherwise    *)
(*   kids the entries of a container in their order, each [k, v]; k is the *)
(*        key of a dict entry and "" for a list element.                   *)
(* Python's None is the tree None: the code itself does not distinguish a  *)
(* missing entry from a null one.  A dict keeps its insertion order, as    *)
(* Python's dict (and ruamel's CommentedMap) does.                         *)
(*                                                                         *)
(* A key (path string) is a sequence of one-character strings.             *)
(***************************************************************************)
EXTENDS Integers, Sequences, FiniteSets, TLC

VARIABLES
    yaml_dict,  \* Yedit.__yaml_dict of the engine under test
    pc,         \* "ready": the caller may call; "returned": a call has returned
    last,       \* the last call: its arguments, its outcome, the tree before it
    fs,         \* the directory of the target file: names, inodes, locks
    proc        \* the processes that run the module or its write protocol

vars == <<yaml_dict, pc, last, fs, proc>>
engine == <<yaml_dict, pc, last>>

----------------------------------------------------------------------------
(* Python values *)

None == [ty |-> "none", sc |-> "", kids |-> <<>>]
PyTrue == [ty |-> "bool", sc |-> "True", kids |-> <<>>]
PyFalse == [ty |-> "bool", sc |-> "False", kids |-> <<>>]
PyInt(s) == [ty |-> "int", sc |-> s, kids |-> <<>>]
PyStr(s) == [ty |-> "str", sc |-> s, kids |-> <<>>]
EmptyDict == [ty |-> "dict", sc |-> "", kids |-> <<>>]
EmptyList == [ty |-> "list", sc |-> "", kids |-> <<>>]

\* {k1: v1, ...} from a sequence of <<key, value>> pairs, [e1, ...] from a sequence
MkDict(pairs) ==
    [ty |-> "dict", sc |-> "",
     kids |-> [i \in 1..Len(pairs) |-> [k |-> pairs[i][1], v |-> pairs[i][2]]]]
MkList(items) ==
    [ty |-> "list", sc |-> "",
     kids |-> [i \in 1..Len(items) |-> [k |-> "", v |-> items[i]]]]

IsDict(x) == x.ty = "dict"
IsList(x) == x.ty = "list"
IsContainer(x) == IsDict(x) \/ IsList(x)
IsNone(x) == x.ty = "none"
PyLen(x) == Len(x.kids)

\* bool(x)
Truthy(x) ==
    CASE x.ty = "none" -> FALSE
      [] x.ty = "bool" -> x.sc = "True"
      [] x.ty = "int" -> x.sc # "0"
      [] x.ty = "str" -> x.sc # ""
      [] OTHER -> x.kids # <<>>

KeysOf(d) == {d.kids[i].k : i \in 1..Len(d.kids)}
HasKey(d, key) == key \in KeysOf(d)
KeyPos(d, key) == CHOOSE i \in 1..Len(d.kids) : d.kids[i].k = key

\* d.get(key)
DictGet(d, key) == IF HasKey(d, key) THEN d.kids[KeyPos(d, key)].v ELSE None

\* d[key] = v : an existing key keeps its place, a new key goes last
DictSet(d, key, v) ==
    IF HasKey(d, key)
    THEN [d EXCEPT !.kids[KeyPos(d, key)].v = v]
    ELSE [d EXCEPT !.kids = Append(d.kids, [k |-> key, v |-> v])]

RemoveAt(s, i) == [j \in 1..(Len(s) - 1) |-> IF j < i THEN s[j] ELSE s[j + 1]]
InsertAt(s, i, e) ==
    [j \in 1..(Len(s) + 1) |-> IF j < i THEN s[j] ELSE IF j = i THEN e ELSE s[j - 1]]

\* del d[key]
DictDel(d, key) == [d EXCEPT !.kids = RemoveAt(d.kids, KeyPos(d, key))]

\* the position (1-based) of Python index i in a list of length n; i in -n..n-1
Pos(n, i) == IF i < 0 THEN i + n + 1 ELSE i + 1
InRange(n, i) == -n <= i /\ i <= n - 1

ListGet(l, i) == l.kids[Pos(PyLen(l), i)].v
ListSet(l, i, v) == [l EXCEPT !.kids[Pos(PyLen(l), i)].v = v]
ListAppend(l, v) == [l EXCEPT !.kids = Append(l.kids, [k |-> "", v |-> v])]
ListDel(l, i) == [l EXCEPT !.kids = RemoveAt(l.kids, Pos(PyLen(l), i))]

\* x == y in Python: dicts compare without regard to order, True == 1, False == 0
RECURSIVE PyEq(_, _)
PyEq(x, y) ==
    CASE IsDict(x) /\ IsDict(y) ->
            /\ KeysOf(x) = KeysOf(y)
            /\ \A key \in KeysOf(x) : PyEq(DictGet(x, key), DictGet(y, key))
      [] IsList(x) /\ IsList(y) ->
            /\ PyLen(x) = PyLen(y)
            /\ \A i \in 1..PyLen(x) : PyEq(x.kids[i].v, y.kids[i].v)
      [] IsContainer(x) \/ IsContainer(y) -> FALSE
      [] x.ty \in {"bool", "int"} /\ y.ty \in {"bool", "int"} ->
            LET num(z) == IF z.sc = "True" THEN "1" ELSE IF z.sc = "False" THEN "0" ELSE z.sc
            IN  num(x) = num(y)
      [] OTHER -> x.ty = y.ty /\ x.sc = y.sc

----------------------------------------------------------------------------
(* Path grammar: Yedit.parse_key, Yedit.valid_key *)

Digits == {"0", "1", "2", "3", "4", "5", "6", "7", "8", "9"}
Letters == {"a", "b", "c", "d", "e", "s", "x", "y"}
com_sep == {".", "#", "|", ":"}

\* the character class of re_key, [0-9a-zA-Z{}/_-] with the other separators
\* in place of {}
KeyBase == Digits \cup Letters \cup {"/", "_", "-"}
InKeyClass(c, sep) == c \in KeyBase \/ (c \in com_sep /\ c # sep)
\* the character class of re_valid_key, [0-9a-zA-Z%s/_-]: "%s" is never
\* substituted there, the pattern is formatted with str.format
ValidClass == Digits \cup Letters \cup {"%", "/", "_", "-"}

\* the position after the longest run of characters of cls that starts at i
RECURSIVE RunEnd(_, _, _)
RunEnd(key, i, cls) ==
    IF i <= Len(key) /\ key[i] \in cls THEN RunEnd(key, i + 1, cls) ELSE i

\* the same for the character class of re_key
RECURSIVE KeyRunEnd(_, _, _)
KeyRunEnd(key, i, sep) ==
    IF i <= Len(key) /\ InKeyClass(key[i], sep) THEN KeyRunEnd(key, i + 1, sep) ELSE i

\* \[(-?\d+)\] at position i: the position after it, 0 when it does not match
IndexEnd(key, i) ==
    IF i <= Len(key) /\ key[i] = "["
    THEN LET d == IF i + 1 <= Len(key) /\ key[i + 1] = "-" THEN i + 2 ELSE i + 1
             e == RunEnd(key, d, Digits)
         IN  IF e > d /\ e <= Len(key) /\ key[e] = "]" THEN e + 1 ELSE 0
    ELSE 0

RECURSIVE Concat(_, _, _)
Concat(key, i, j) == IF i >= j THEN "" ELSE key[i] \o Concat(key, i + 1, j)

\* re.findall(re_key, key): the (arr_ind, dict_key) pairs, left to right
RECURSIVE FindAll(_, _, _)
FindAll(key, i, sep) ==
    IF i > Len(key) THEN <<>>
    ELSE IF IndexEnd(key, i) # 0
    THEN <<[arr_ind |-> SubSeq(key, i + 1, IndexEnd(key, i) - 2), dict_key |-> ""]>>
         \o FindAll(key, IndexEnd(key, i), sep)
    ELSE IF InKeyClass(key[i], sep)
    THEN <<[arr_ind |-> <<>>, dict_key |-> Concat(key, i, KeyRunEnd(key, i, sep))]>>
         \o FindAll(key, KeyRunEnd(key, i, sep), sep)
    ELSE FindAll(key, i + 1, sep)

parse_key(key, sep) == FindAll(key, 1, sep)

\* whether (((\[-?\d+\])|([0-9a-zA-Z%s/_-]+)).?)+$ matches key from position i
RECURSIVE MatchFrom(_, _)
MatchFrom(key, i) ==
    LET n == Len(key)
        ends == (IF IndexEnd(key, i) # 0 THEN {IndexEnd(key, i)} ELSE {})
                \cup ((i + 1)..RunEnd(key, i, ValidClass))
    IN  \E j \in ends :
            \/ j = n + 1
            \/ j = n
            \/ MatchFrom(key, j)
            \/ j < n /\ MatchFrom(key, j + 1)

valid_key(key, sep) == MatchFrom(key, 1)

\* int(arr_ind)
DigitVal ==
    [c \in Digits |->
        CASE c = "0" -> 0 [] c = "1" -> 1 [] c = "2" -> 2 [] c = "3" -> 3 [] c = "4" -> 4
          [] c = "5" -> 5 [] c = "6" -> 6 [] c = "7" -> 7 [] c = "8" -> 8 [] OTHER -> 9]
RECURSIVE DigitsVal(_, _)
DigitsVal(s, acc) ==
    IF s = <<>> THEN acc ELSE DigitsVal(Tail(s), 10 * acc + DigitVal[Head(s)])
int(arr_ind) ==
    IF Head(arr_ind) = "-" THEN 0 - DigitsVal(Tail(arr_ind), 0) ELSE DigitsVal(arr_ind, 0)

----------------------------------------------------------------------------
(* Outcomes.  A call returns normally (exc = "") with a value ret, or raises *)
(* the exception named by exc; data is the tree the call was given, as the   *)
(* call leaves it (the mutators work in place).                              *)

Ok(ret, data) == [exc |-> "", ret |-> ret, data |-> data]
Raise(exc, data) == [exc |-> exc, ret |-> None, data |-> data]

----------------------------------------------------------------------------
(* Tree navigator: Yedit.get_entry *)

\* the loop of get_entry over the parsed key
RECURSIVE GetWalk(_, _)
GetWalk(data, key_indexes) ==
    IF key_indexes = <<>> THEN Ok(data, data)
    ELSE LET arr_ind == Head(key_indexes).arr_ind
             dict_key == Head(key_indexes).dict_key
         IN  IF dict_key # "" /\ IsDict(data)
             THEN GetWalk(DictGet(data, dict_key), Tail(key_indexes))
             ELSE IF arr_ind # <<>> /\ IsList(data) /\ int(arr_ind) <= PyLen(data) - 1
             THEN IF InRange(PyLen(data), int(arr_ind))
                  THEN GetWalk(ListGet(data, int(arr_ind)), Tail(key_indexes))
                  ELSE Raise("IndexError", data)
             ELSE Ok(None, data)

get_entry(data, key, sep) ==
    IF key # <<>> /\ ~valid_key(key, sep) /\ IsContainer(data)
    THEN Ok(None, data)
    ELSE LET r == GetWalk(data, parse_key(key, sep))
         IN  [r EXCEPT !.data = data]

----------------------------------------------------------------------------
(* Tree mutator: Yedit.add_entry, Yedit.remove_entry *)

\* the last step of add_entry with an element appended where one is to be replaced
AddLast_always_append(data, step, item) ==
    IF step.arr_ind # <<>> /\ IsList(data) /\ int(step.arr_ind) <= PyLen(data)
    THEN Ok(ListAppend(data, item), ListAppend(data, item))
    ELSE IF step.dict_key # "" /\ IsDict(data)
    THEN Ok(DictSet(data, step.dict_key, item), DictSet(data, step.dict_key, item))
    ELSE Raise("YeditException", data)

\* the last step of add_entry, on the container the walk has reached
AddLast(data, step, item) ==
    IF step.arr_ind # <<>> /\ IsList(data) /\ int(step.arr_ind) <= PyLen(data)
    THEN IF int(step.arr_ind) > PyLen(data) - 1
         THEN Ok(ListAppend(data, item), ListAppend(data, item))
         ELSE IF InRange(PyLen(data), int(step.arr_ind))
         THEN Ok(ListSet(data, int(step.arr_ind), item), ListSet(data, int(step.arr_ind), item))
         ELSE Raise("IndexError", data)
    ELSE IF step.dict_key # "" /\ IsDict(data)
    THEN Ok(DictSet(data, step.dict_key, item), DictSet(data, step.dict_key, item))
    ELSE Raise("YeditException", data)

\* the loop of add_entry over key_indexes[:-1], then the last step; ret is the
\* container the last step worked on, data the tree rebuilt around it
RECURSIVE AddWalk(_, _, _)
AddWalk(data, key_indexes, item) ==
    IF Len(key_indexes) = 1 THEN AddLast(data, Head(key_indexes), item)
    ELSE LET arr_ind == Head(key_indexes).arr_ind
             dict_key == Head(key_indexes).dict_key
             rest == Tail(key_indexes)
         IN  IF dict_key # ""
             THEN IF IsDict(data) /\ HasKey(data, dict_key) /\ Truthy(DictGet(data, dict_key))
                  THEN LET r == AddWalk(DictGet(data, dict_key), rest, item)
                       IN  [r EXCEPT !.data = DictSet(data, dict_key, r.data)]
                  ELSE IF Truthy(data) /\ ~IsDict(data)
                  THEN Raise("YeditException", data)
                  ELSE IF ~IsDict(data)
                  THEN Raise("TypeError", data)   \* data[dict_key] = {} on [] or a scalar
                  ELSE LET r == AddWalk(EmptyDict, rest, item)
                       IN  [r EXCEPT !.data = DictSet(data, dict_key, r.data)]
             ELSE IF arr_ind # <<>> /\ IsList(data) /\ int(arr_ind) <= PyLen(data) - 1
             THEN IF InRange(PyLen(data), int(arr_ind))
                  THEN LET r == AddWalk(ListGet(data, int(arr_ind)), rest, item)
                       IN  [r EXCEPT !.data = ListSet(data, int(arr_ind), r.data)]
                  ELSE Raise("IndexError", data)
             ELSE Raise("YeditException", data)

add_entry(data, key, item, sep) ==
    IF key # <<>> /\ ~valid_key(key, sep) /\ IsContainer(data)
    THEN Ok(None, data)
    ELSE IF key = <<>> THEN Ok(item, data)
    ELSE IF parse_key(key, sep) = <<>>
    THEN Raise("IndexError", data)   \* key_indexes[-1] of an empty list
    ELSE AddWalk(data, parse_key(key, sep), item)

\* an index argument: Python's None or an integer
NoIndex == [none |-> TRUE, i |-> 0]
Index(n) == [none |-> FALSE, i |-> n]

\* list.index(value): the first position (1-based) holding a value equal to
\* value, 0 when there is none (ValueError)
ListIndex(l, value) ==
    IF \E i \in 1..PyLen(l) : PyEq(l.kids[i].v, value)
    THEN CHOOSE i \in 1..PyLen(l) :
            /\ PyEq(l.kids[i].v, value)
            /\ \A j \in 1..(i - 1) : ~PyEq(l.kids[j].v, value)
    ELSE 0

\* remove_entry with key == '' on a dict
RemoveRootDict(data, index, value) ==
    IF ~IsNone(value)
    THEN IF value.ty = "str" /\ HasKey(data, value.sc)
         THEN Ok(PyTrue, DictDel(data, value.sc))
         ELSE IF IsContainer(value) /\ PyLen(data) > 0
         THEN Raise("TypeError", data)   \* unhashable; an empty dict does not hash
         ELSE Raise("KeyError", data)
    ELSE IF ~index.none THEN Raise("YeditException", data)
    ELSE Ok(PyTrue, EmptyDict)

\* remove_entry with key == '' on a list
RemoveRootList(data, index, value) ==
    IF ~IsNone(value)
    THEN IF ListIndex(data, value) = 0
         THEN Ok(PyFalse, data)
         ELSE Ok(PyTrue, [data EXCEPT !.kids = RemoveAt(data.kids, ListIndex(data, value))])
    ELSE IF ~index.none
    THEN IF InRange(PyLen(data), index.i)
         THEN Ok(PyTrue, ListDel(data, index.i))
         ELSE Raise("IndexError", data)
    ELSE Ok(PyTrue, EmptyList)

\* the last step of remove_entry, on the container the walk has reached
RemoveLast(data, step) ==
    IF step.arr_ind # <<>>
    THEN IF IsList(data) /\ int(step.arr_ind) <= PyLen(data) - 1
         THEN IF InRange(PyLen(data), int(step.arr_ind))
              THEN Ok(PyTrue, ListDel(data, int(step.arr_ind)))
              ELSE Raise("IndexError", data)
         ELSE Ok(None, data)
    ELSE IF IsDict(data)
    THEN IF HasKey(data, step.dict_key)
         THEN Ok(PyTrue, DictDel(data, step.dict_key))
         ELSE Raise("KeyError", data)
    ELSE Ok(None, data)

\* the loop of remove_entry over key_indexes[:-1], then the last step
RECURSIVE RemoveWalk(_, _)
RemoveWalk(data, key_indexes) ==
    IF Len(key_indexes) = 1 THEN RemoveLast(data, Head(key_indexes))
    ELSE LET arr_ind == Head(key_indexes).arr_ind
             dict_key == Head(key_indexes).dict_key
             rest == Tail(key_indexes)
         IN  IF dict_key # "" /\ IsDict(data)
             THEN LET r == RemoveWalk(DictGet(data, dict_key), rest)
                  IN  IF HasKey(data, dict_key)
                      THEN [r EXCEPT !.data = DictSet(data, dict_key, r.data)]
                      ELSE [r EXCEPT !.data = data]
             ELSE IF arr_ind # <<>> /\ IsList(data) /\ int(arr_ind) <= PyLen(data) - 1
             THEN IF InRange(PyLen(data), int(arr_ind))
                  THEN LET r == RemoveWalk(ListGet(data, int(arr_ind)), rest)
                       IN  [r EXCEPT !.data = ListSet(data, int(arr_ind), r.data)]
                  ELSE Raise("IndexError", data)
             ELSE Ok(None, data)

remove_entry(data, key, index, value, sep) ==
    IF key = <<>> /\ IsDict(data) THEN RemoveRootDict(data, index, value)
    ELSE IF key = <<>> /\ IsList(data) THEN RemoveRootList(data, index, value)
    ELSE IF ~(key # <<>> /\ valid_key(key, sep)) /\ IsContainer(data) THEN Ok(None, data)
    ELSE IF parse_key(key, sep) = <<>>
    THEN Raise("IndexError", data)   \* key_indexes[-1] of an empty list
    ELSE RemoveWalk(data, parse_key(key, sep))

----------------------------------------------------------------------------
(* Document engine: class Yedit.  Each method is an operator of the tree     *)
(* self.yaml_dict and the arguments; its outcome is                          *)
(*   exc      the exception raised, "" when the method returned              *)
(*   changed  rval[0]                                                        *)
(*   tree     self.yaml_dict when the method ends (also rval[1])             *)
(*   ret      the value returned by get, None otherwise                      *)
(*   fresh    whether self.yaml_dict was bound to a new object; otherwise    *)
(*            the object it was bound to has been changed in place, if at   *)
(*            all                                                            *)

separator == "."

\* no call yet: the record of the last call before the first one
NoCall ==
    [op |-> "", key |-> <<>>, value |-> None, index |-> NoIndex, curr |-> None,
     exc |-> "", changed |-> FALSE, ret |-> None, before |-> None,
     n |-> 0, again |-> FALSE, first |-> FALSE, any |-> FALSE]

Done(changed, tree) ==
    [exc |-> "", changed |-> changed, tree |-> tree, ret |-> None, fresh |-> FALSE]
Fail(exc, tree) ==
    [exc |-> exc, changed |-> FALSE, tree |-> tree, ret |-> None, fresh |-> FALSE]
\* self.yaml_dict has been bound to a new object (a copy, or the value itself)
Rebound(tree) == [Done(TRUE, tree) EXCEPT !.fresh = TRUE]

\* the tree with the object that get_entry reaches by key_indexes replaced by
\* new: what an in-place change of that object does to the tree
RECURSIVE ReplaceWalk(_, _, _)
ReplaceWalk(data, key_indexes, new) ==
    IF key_indexes = <<>> THEN new
    ELSE LET arr_ind == Head(key_indexes).arr_ind
             dict_key == Head(key_indexes).dict_key
         IN  IF dict_key # "" /\ IsDict(data)
             THEN IF HasKey(data, dict_key)
                  THEN DictSet(data, dict_key,
                               ReplaceWalk(DictGet(data, dict_key), Tail(key_indexes), new))
                  ELSE data
             ELSE IF arr_ind # <<>> /\ IsList(data) /\ InRange(PyLen(data), int(arr_ind))
             THEN ListSet(data, int(arr_ind),
                          ReplaceWalk(ListGet(data, int(arr_ind)), Tail(key_indexes), new))
             ELSE data

\* the steps of a path, none for the root path
Steps(path) == IF path = <<>> THEN <<>> ELSE parse_key(path, separator)

\* Yedit.get, entry what get_entry returns
Got(tree, entry) ==
    IF entry.exc # "" THEN Fail(entry.exc, tree)
    ELSE [Done(FALSE, tree) EXCEPT !.ret = entry.ret]

\* a get that leaves an empty mapping at the path, as a walk with
\* dict.setdefault would
get_setdefault(tree, key) ==
    Got(add_entry(tree, key, EmptyDict, separator).data, get_entry(tree, key, separator))

\* Yedit.get
get(tree, key) == Got(tree, get_entry(tree, key, separator))

\* the end of Yedit.put without the test of the type of a new root
Committed_any_root(tree, path, result) ==
    IF result.exc # "" THEN Fail(result.exc, tree)
    ELSE IF IsNone(result.ret) THEN Done(FALSE, tree)
    ELSE IF path = <<>> THEN Rebound(result.ret)
    ELSE Rebound(result.data)

\* the end of Yedit.put had add_entry worked on self.yaml_dict itself instead
\* of tmp_copy
Committed_in_place(tree, path, result) ==
    IF result.exc # "" THEN Fail(result.exc, result.data)
    ELSE IF IsNone(result.ret) THEN Done(FALSE, result.data)
    ELSE IF path = <<>>
    THEN IF IsContainer(result.ret) THEN Rebound(result.ret) ELSE Done(FALSE, tree)
    ELSE Rebound(result.data)

\* the end of Yedit.put, result what add_entry has made of tmp_copy
Committed(tree, path, result) ==
    IF result.exc # "" THEN Fail(result.exc, tree)
    ELSE IF IsNone(result.ret) THEN Done(FALSE, tree)
    ELSE IF path = <<>>
    THEN IF IsContainer(result.ret) THEN Rebound(result.ret) ELSE Done(FALSE, tree)
    ELSE Rebound(result.data)

\* put without the comparison of the current entry with value
put_no_compare(tree, path, value) ==
    Committed(tree, path, add_entry(tree, path, value, separator))

\* Yedit.put from the comparison on, entry what get_entry returns
Compared(tree, path, value, entry) ==
    IF entry.exc # "" THEN Fail(entry.exc, tree)
    ELSE IF PyEq(entry.ret, value) THEN Done(FALSE, tree)
    ELSE Committed(tree, path, add_entry(tree, path, value, separator))

\* Yedit.put
put(tree, path, value) == Compared(tree, path, value, get_entry(tree, path, separator))

\* Yedit.delete, entry what get_entry returns, result what remove_entry does
Deleted(tree, entry, result) ==
    IF entry.exc # "" THEN Fail(entry.exc, tree)
    ELSE IF IsNone(entry.ret) THEN Done(FALSE, tree)
    ELSE IF result.exc # "" THEN Fail(result.exc, result.data)
    ELSE IF ~Truthy(result.ret) THEN Done(FALSE, result.data)
    ELSE Done(TRUE, result.data)

\* Yedit.delete
delete(tree, path, index, value) ==
    Deleted(tree, get_entry(tree, path, separator),
            remove_entry(tree, path, index, value, separator))

\* Yedit.append without line 596: the sequence is never created
Made_never(tree, path, entry) ==
    IF entry.exc # "" THEN Fail(entry.exc, tree)
    ELSE Done(FALSE, tree)

\* the start of Yedit.append and Yedit.insert: put(path, []) when the path
\* resolves to nothing; entry is what get_entry returns
Made(tree, path, entry) ==
    IF entry.exc # "" THEN Fail(entry.exc, tree)
    ELSE IF IsNone(entry.ret) THEN put(tree, path, EmptyList)
    ELSE Done(FALSE, tree)

\* the end of Yedit.append, entry what get_entry returns after Made
Appended(made, path, value, entry) ==
    IF made.exc # "" THEN Fail(made.exc, made.tree)
    ELSE IF entry.exc # "" THEN [Fail(entry.exc, made.tree) EXCEPT !.fresh = made.fresh]
    ELSE IF ~IsList(entry.ret) THEN [Done(FALSE, made.tree) EXCEPT !.fresh = made.fresh]
    ELSE [Done(TRUE, ReplaceWalk(made.tree, Steps(path), ListAppend(entry.ret, value)))
          EXCEPT !.fresh = made.fresh]

AppendMade(made, path, value) ==
    Appended(made, path, value, get_entry(made.tree, path, separator))

\* Yedit.append
append(tree, path, value) ==
    AppendMade(Made(tree, path, get_entry(tree, path, separator)), path, value)

\* list.insert(index, value): the index is clamped to the list
ListInsert(l, i, v) ==
    LET n == PyLen(l)
        at == IF i < 0 THEN (IF i + n < 0 THEN 0 ELSE i + n) ELSE (IF i > n THEN n ELSE i)
    IN  [l EXCEPT !.kids = InsertAt(l.kids, at + 1, [k |-> "", v |-> v])]

\* the end of Yedit.insert, entry what get_entry returns after Made
Inserted(made, path, value, index, entry) ==
    IF made.exc # "" THEN Fail(made.exc, made.tree)
    ELSE IF entry.exc # "" THEN [Fail(entry.exc, made.tree) EXCEPT !.fresh = made.fresh]
    ELSE IF ~IsList(entry.ret) THEN [Done(FALSE, made.tree) EXCEPT !.fresh = made.fresh]
    ELSE IF index.none   \* entry.insert(None, value)
    THEN [Fail("TypeError", made.tree) EXCEPT !.fresh = made.fresh]
    ELSE [Done(TRUE, ReplaceWalk(made.tree, Steps(path), ListInsert(entry.ret, index.i, value)))
          EXCEPT !.fresh = made.fresh]

InsertMade(made, path, value, index) ==
    Inserted(made, path, value, index, get_entry(made.tree, path, separator))

\* Yedit.insert
insert(tree, path, value, index) ==
    InsertMade(Made(tree, path, get_entry(tree, path, separator)), path, value, index)

\* dict.update(value): the keys of value, in their order
RECURSIVE DictUpdate(_, _, _)
DictUpdate(d, value, i) ==
    IF i > PyLen(value) THEN d
    ELSE DictUpdate(DictSet(d, value.kids[i].k, value.kids[i].v), value, i + 1)

\* the list branch of Yedit.update once ind is set
UpdateListInd(entry, value, ind) ==
    IF ~ind.none /\ ~InRange(PyLen(entry), ind.i) THEN Raise("IndexError", entry)
    ELSE IF ~ind.none /\ ~PyEq(ListGet(entry, ind.i), value)
    THEN Ok(PyTrue, ListSet(entry, ind.i, value))
    ELSE IF ListIndex(entry, value) = 0 THEN Ok(PyTrue, ListAppend(entry, value))
    ELSE Ok(PyFalse, entry)

\* the list branch of Yedit.update, at the position of curr_value in entry
\* (0: not there)
UpdateListAt(entry, value, index, curr_value, at) ==
    IF Truthy(curr_value) /\ at = 0 THEN Ok(PyFalse, entry)
    ELSE UpdateListInd(entry, value, IF Truthy(curr_value) THEN Index(at - 1) ELSE index)

\* the list branch of Yedit.update
UpdateList(entry, value, index, curr_value) ==
    UpdateListAt(entry, value, index, curr_value, ListIndex(entry, curr_value))

\* the end of Yedit.update for a list, r the outcome of the list branch
UpdatedList(tree, path, r) ==
    IF r.exc # "" THEN Fail(r.exc, tree)
    ELSE Done(Truthy(r.ret), ReplaceWalk(tree, Steps(path), r.data))

\* Yedit.update, entry what get_entry returns
UpdateEntry(tree, path, value, index, curr_value, entry) ==
    IF entry.exc # "" THEN Fail(entry.exc, tree)
    ELSE IF IsDict(entry.ret)
    THEN IF ~IsDict(value) THEN Fail("YeditException", tree)
         ELSE Done(TRUE, ReplaceWalk(tree, Steps(path), DictUpdate(entry.ret, value, 1)))
    ELSE IF IsList(entry.ret)
    THEN UpdatedList(tree, path, UpdateList(entry.ret, value, index, curr_value))
    ELSE Done(FALSE, tree)

\* Yedit.update
update(tree, path, value, index, curr_value) ==
    UpdateEntry(tree, path, value, index, curr_value, get_entry(tree, path, separator))

\* Yedit.pop, entry what get_entry returns
PopEntry(tree, path, key_or_item, entry) ==
    IF entry.exc # "" THEN Fail(entry.exc, tree)
    ELSE IF IsNone(entry.ret) THEN Done(FALSE, tree)
    ELSE IF IsDict(entry.ret)
    THEN IF IsContainer(key_or_item)
         THEN Fail("TypeError", tree)   \* key_or_item in entry: unhashable
         ELSE IF key_or_item.ty = "str" /\ HasKey(entry.ret, key_or_item.sc)
         THEN Done(TRUE, ReplaceWalk(tree, Steps(path), DictDel(entry.ret, key_or_item.sc)))
         ELSE Done(FALSE, tree)
    ELSE IF IsList(entry.ret)
    THEN IF ListIndex(entry.ret, key_or_item) = 0 THEN Done(FALSE, tree)
         ELSE Done(TRUE, ReplaceWalk(tree, Steps(path),
                    [entry.ret EXCEPT !.kids = RemoveAt(entry.ret.kids,
                                                        ListIndex(entry.ret, key_or_item))]))
    ELSE Done(FALSE, tree)

\* Yedit.pop
pop(tree, path, key_or_item) == PopEntry(tree, path, key_or_item, get_entry(tree, path, separator))

----------------------------------------------------------------------------
(* The file system, as the write protocol sees it.  A name of the directory *)
(* refers to an inode (0: no such file); an inode holds the file's content  *)
(* as NChunks chunks, each written or not, and the holder of its flock.     *)
(* A text is written in NChunks writes; a file is complete when all its     *)
(* chunks hold the same text.                                               *)

NChunks == 2
NInodes == 4
Procs == {1, 2}

filename == "f.yml"
\* the temporary file is the target file itself
tmp_filename_in_place == filename
tmp_filename == filename \o ".yedit"
backup_ext == ".orig"
backup_filename == filename \o backup_ext
Names == {filename, tmp_filename, backup_filename}

Unwritten == [w |-> FALSE, text |-> None]
Written(text) == [w |-> TRUE, text |-> text]
Empty == [k \in 1..NChunks |-> Unwritten]
FreeInode == [free |-> TRUE, chunks |-> Empty, lock |-> 0, synced |-> FALSE]
NewInode == [free |-> FALSE, chunks |-> Empty, lock |-> 0, synced |-> FALSE]

\* default_yaml.dump(tree, f): the text of the tree, in NChunks chunks
dump(tree) == [k \in 1..NChunks |-> Written(tree)]
FileOf(tree) == [free |-> FALSE, chunks |-> dump(tree), lock |-> 0, synced |-> TRUE]

IsComplete(chunks) == \A k \in 1..NChunks : chunks[k].w /\ chunks[k].text = chunks[1].text
IsEmpty(chunks) == \A k \in 1..NChunks : ~chunks[k].w

\* orig is the text of the target file at the start (None: no such file); it
\* is kept for the properties and no step reads it
NoFs ==
    [names |-> [n \in Names |-> 0], inodes |-> [i \in 1..NInodes |-> FreeInode],
     orig |-> None]

Exists(name) == fs.names[name] # 0
ContentOf(name) == fs.inodes[fs.names[name]].chunks

\* an inode that no name and no open file refers to is gone
Collect(names, inodes, procs) ==
    [i \in 1..NInodes |->
        IF (\E n \in Names : names[n] = i) \/ (\E p \in Procs : procs[p].fd = i)
        THEN inodes[i]
        ELSE FreeInode]

FreeId == CHOOSE i \in 1..NInodes : fs.inodes[i].free /\ \A j \in 1..(i - 1) : ~fs.inodes[j].free

----------------------------------------------------------------------------
(* Processes.  A process runs Yedit.run_ansible (from pc "start") or only   *)
(* the write protocol Yedit._write (from pc "w_stat") on the target file.   *)
(*   pc         the position of the process                                 *)
(*   yaml_dict  the tree of its Yedit object                                *)
(*   fd, k      the inode its open temporary file refers to (0: none) and   *)
(*              the number of chunks it has written                         *)
(*   exc        the exception that ended it, "" if none                     *)
(*   renamed    whether its os.rename has been done                         *)
(*   params     module.params of its invocation                             *)
(*   edits, i   the batch of process_edits and the position of its loop     *)
(*   raised     the position of the edit that raised, 0 if none             *)
(*   obj        the identity of the object self.yaml_dict is bound to       *)
(*   results    the result list: key, the object recorded (an alias, not a  *)
(*              copy) and what that object holds now                        *)
(*   changed    the changed flag of the value returned                      *)
(*   writes     how many times Yedit.write has been called                  *)

\* module.params with the defaults of the argument_spec; edits_given tells
\* edits = [] from edits = None
NoParams ==
    [state |-> "", src |-> FALSE, backup |-> FALSE, content |-> None,
     key |-> <<>>, value |-> None, value_type |-> "",
     update |-> FALSE, append |-> FALSE, insert |-> FALSE, index |-> NoIndex,
     curr_value |-> None, curr_value_format |-> "yaml",
     edits |-> <<>>, edits_given |-> FALSE]

Off ==
    [pc |-> "off", yaml_dict |-> None, fd |-> 0, k |-> 0, exc |-> "", renamed |-> FALSE,
     params |-> NoParams, edits |-> <<>>, i |-> 0, raised |-> 0, obj |-> 0,
     results |-> <<>>, changed |-> FALSE, writes |-> 0]

NoProcs == [p \in Procs |-> Off]

Writer(tree) == [Off EXCEPT !.pc = "w_stat", !.yaml_dict = tree]

\* the process ends with an exception; its open file is closed, its lock released
Failed(p, exc) == [proc[p] EXCEPT !.pc = "failed", !.exc = exc, !.fd = 0]
Unlocked(inodes, p) ==
    [i \in 1..NInodes |-> IF inodes[i].lock = p THEN [inodes[i] EXCEPT !.lock = 0] ELSE inodes[i]]

\* fs and proc after a step of p that leaves names, inodes and the record me
Step(p, names, inodes, me) ==
    /\ proc' = [proc EXCEPT ![p] = me]
    /\ fs' = [names |-> names,
              inodes |-> Collect(names, inodes, [proc EXCEPT ![p] = me]),
              orig |-> fs.orig]
    /\ UNCHANGED engine

----------------------------------------------------------------------------
(* The write protocol: Yedit._write, one action per system call *)

\* original_mode = os.stat(filename).st_mode
Stat(p) ==
    /\ proc[p].pc = "w_stat"
    /\ IF Exists(filename)
       THEN Step(p, fs.names, fs.inodes, [proc[p] EXCEPT !.pc = "w_open"])
       ELSE Step(p, fs.names, fs.inodes, Failed(p, "FileNotFoundError"))

\* fd = os.open(tmp_filename, O_WRONLY | O_CREAT | O_TRUNC, mode)
Open(p) ==
    /\ proc[p].pc = "w_open"
    /\ IF Exists(tmp_filename)
       THEN Step(p, fs.names,
                 [fs.inodes EXCEPT ![fs.names[tmp_filename]].chunks = Empty,
                                   ![fs.names[tmp_filename]].synced = FALSE],
                 [proc[p] EXCEPT !.pc = "w_flock", !.fd = fs.names[tmp_filename], !.k = 0])
       ELSE Step(p, [fs.names EXCEPT ![tmp_filename] = FreeId],
                 [fs.inodes EXCEPT ![FreeId] = NewInode],
                 [proc[p] EXCEPT !.pc = "w_flock", !.fd = FreeId, !.k = 0])

\* fcntl.flock(yfd, LOCK_EX | LOCK_NB)
Flock(p) ==
    /\ proc[p].pc = "w_flock"
    /\ IF fs.inodes[proc[p].fd].lock \notin {0, p}
       THEN Step(p, fs.names, fs.inodes, Failed(p, "BlockingIOError"))
       ELSE Step(p, fs.names, [fs.inodes EXCEPT ![proc[p].fd].lock = p],
                 [proc[p] EXCEPT !.pc = "w_write"])

\* write_func(yfd); yfd.flush(): the next chunk of the text reaches the file
WriteChunk(p) ==
    /\ proc[p].pc = "w_write"
    /\ Step(p, fs.names,
            [fs.inodes EXCEPT ![proc[p].fd].chunks[proc[p].k + 1] = Written(proc[p].yaml_dict)],
            [proc[p] EXCEPT !.k = @ + 1,
                            !.pc = IF proc[p].k + 1 = NChunks THEN "w_fsync" ELSE "w_write"])

\* try: os.fsync(yfd.fileno()) except: pass
Fsync(p) ==
    /\ proc[p].pc = "w_fsync"
    /\ \E ok \in BOOLEAN :
          Step(p, fs.names, [fs.inodes EXCEPT ![proc[p].fd].synced = ok],
               [proc[p] EXCEPT !.pc = "w_unlock"])

\* fcntl.flock(yfd, LOCK_UN) and the end of the with block
Unlock(p) ==
    /\ proc[p].pc = "w_unlock"
    /\ Step(p, fs.names, Unlocked(fs.inodes, p), [proc[p] EXCEPT !.pc = "w_rename", !.fd = 0])

\* os.rename(tmp_filename, filename)
Rename(p) ==
    /\ proc[p].pc = "w_rename"
    /\ IF Exists(tmp_filename)
       THEN Step(p, [fs.names EXCEPT ![filename] = fs.names[tmp_filename], ![tmp_filename] = 0],
                 fs.inodes, [proc[p] EXCEPT !.pc = "w_dirsync", !.renamed = TRUE])
       ELSE Step(p, fs.names, fs.inodes, Failed(p, "FileNotFoundError"))

\* the best-effort fsync of the directory; _write returns
DirSync(p) ==
    /\ proc[p].pc = "w_dirsync"
    /\ Step(p, fs.names, fs.inodes, [proc[p] EXCEPT !.pc = "w_done"])

\* the process is interrupted within the write protocol
Crash(p) ==
    /\ proc[p].pc \in {"w_stat", "w_open", "w_flock", "w_write", "w_fsync", "w_unlock",
                       "w_rename", "w_dirsync"}
    /\ Step(p, fs.names, Unlocked(fs.inodes, p),
            [proc[p] EXCEPT !.pc = "crashed", !.fd = 0])

----------------------------------------------------------------------------
(* Specification SpecWrite: one or two processes run the write protocol on  *)
(* the same target file, each with its own tree, and may be interrupted     *)
(* anywhere.                                                                *)

OrigDocs == { MkDict(<< <<"a", PyInt("1")>> >>), EmptyDict }
WDocs == { MkDict(<< <<"a", PyInt("2")>> >>), MkDict(<< <<"a", PyInt("1")>>, <<"b", PyStr("d")>> >>) }

InitWrite ==
    /\ yaml_dict = None /\ pc = "" /\ last = NoCall
    /\ \E orig \in OrigDocs :
          fs = [names |-> [n \in Names |-> IF n = filename THEN 1 ELSE 0],
                inodes |-> [i \in 1..NInodes |-> IF i = 1 THEN FileOf(orig) ELSE FreeInode],
                orig |-> orig]
    /\ \E t1 \in WDocs, w2 \in {Off} \cup {Writer(t) : t \in WDocs} :
          proc = [p \in Procs |-> IF p = 1 THEN Writer(t1) ELSE w2]

NextWrite ==
    \E p \in Procs :
        \/ Stat(p) \/ Open(p) \/ Flock(p) \/ WriteChunk(p) \/ Fsync(p)
        \/ Unlock(p) \/ Rename(p) \/ DirSync(p) \/ Crash(p)

SpecWrite == InitWrite /\ [][NextWrite]_vars

\* the target file holds the whole text of tree
Holds(tree) == Exists(filename) /\ ContentOf(filename) = dump(tree)

SingleWriter == proc[1].pc # "off" /\ proc[2].pc = "off"

\* C3: crash safety of a single writer.  With one process in the write
\* protocol, interrupted anywhere or not, the target file holds at every
\* instant the whole old text or the whole new text, and it holds the old text
\* as long as the process has not done its rename.
C3_SingleWriterCrashSafe ==
    SingleWriter =>
        /\ Holds(fs.orig) \/ Holds(proc[1].yaml_dict)
        /\ ~proc[1].renamed => Holds(fs.orig)

\* the writer was interrupted with the temporary file partly written
C3_Witness ==
    /\ SingleWriter
    /\ proc[1].pc = "crashed" /\ ~proc[1].renamed
    /\ Exists(tmp_filename)
    /\ ~IsComplete(ContentOf(tmp_filename)) /\ ~IsEmpty(ContentOf(tmp_filename))
    /\ Holds(fs.orig)

\* C4 (as claimed): with any number of processes in the write protocol, the
\* target file always holds the whole original text or the whole text of one
\* writer's tree.
C4_TargetNeverPartial ==
    \/ Holds(fs.orig)
    \/ \E p \in Procs : proc[p].pc # "off" /\ Holds(proc[p].yaml_dict)

\* the step leaves the process that holds the flock of inode i where it was:
\* it is a step of another process
NotByHolder(i) ==
    /\ fs.inodes[i].lock # 0
    /\ proc'[fs.inodes[i].lock] = proc[fs.inodes[i].lock]

\* C23 (as claimed): the advisory lock on the temporary file protects it from
\* a second writer: while a process holds the exclusive lock on the temporary
\* file, no step of another process changes the content or the length of the
\* file; the contending process fails without having modified it.
C23_LockProtectsTemp ==
    [][\A i \in 1..NInodes :
          NotByHolder(i) => fs'.inodes[i].chunks = fs.inodes[i].chunks]_vars

\* C25 (as claimed): the temporary file is renamed onto the target only after
\* its contents have been fsynced with success: a writer on its own that has
\* renamed its file has left on the target a file whose fsync succeeded; when
\* the fsync fails the write fails and the target is not replaced.
C25_RenameAfterFsync ==
    \A p \in Procs :
        (SingleWriter /\ proc[p].renamed) => fs.inodes[fs.names[filename]].synced

----------------------------------------------------------------------------
(* The module invocation: Yedit.run_ansible with state=present, one action  *)
(* per stage, the write protocol as above                                   *)

true_bools == {"y", "Y", "yes", "Yes", "YES", "true", "True", "TRUE", "on", "On", "ON"}
false_bools == {"n", "N", "no", "No", "NO", "false", "False", "FALSE", "off", "Off", "OFF"}

IsStr(x) == x.ty = "str"

\* default_yaml.load of the text of a plain scalar or an empty flow collection
\* (YAML 1.2: yes, no, on, off stay strings)
IntTexts == {"0", "1", "2", "7"}
yaml_load(text) ==
    CASE text \in {"true", "True", "TRUE"} -> PyTrue
      [] text \in {"false", "False", "FALSE"} -> PyFalse
      [] text \in {"", "~", "null", "Null", "NULL"} -> None
      [] text \in IntTexts -> PyInt(text)
      [] text = "[]" -> EmptyList
      [] text = "{}" -> EmptyDict
      [] OTHER -> PyStr(text)

\* the texts default_yaml.load rejects
Unparsable == {"{", "["}

\* Yedit.parse_value
parse_value(inc_value, vtype) ==
    IF IsStr(inc_value) /\ vtype = "bool" /\ inc_value.sc \notin (true_bools \cup false_bools)
    THEN Raise("YeditException", None)
    ELSE LET value == IF ~IsStr(inc_value) /\ inc_value.ty = "bool" /\ vtype = "str"
                      THEN PyStr(inc_value.sc)
                      ELSE inc_value
         IN  IF IsStr(value) /\ value.sc = "" THEN Ok(value, None)
             ELSE IF IsStr(value) /\ vtype # "str"
             THEN IF value.sc \in Unparsable
                  THEN Raise("YeditException", None)
                  ELSE Ok(yaml_load(value.sc), None)
             ELSE Ok(value, None)

\* Yedit.get_curr_value: str(invalue) of a scalar is its text
get_curr_value(invalue, val_type) ==
    IF IsNone(invalue) THEN None
    ELSE IF val_type = "yaml" /\ ~IsContainer(invalue) THEN yaml_load(invalue.sc)
    ELSE invalue

\* an entry of edits; a key the entry does not have reads as its default
NoEdit ==
    [key |-> <<>>, value |-> None, value_type |-> "", action |-> "", index |-> NoIndex,
     curr_value |-> None, curr_value_format |-> "yaml"]

\* the edit run_ansible makes of key, value and the action flags
SingleEdit(params) ==
    LET action == IF params.update THEN "update"
                  ELSE IF params.append THEN "append"
                  ELSE IF params.insert THEN "insert"
                  ELSE ""
    IN  [key |-> params.key, value |-> params.value, value_type |-> params.value_type,
         action |-> action,
         index |-> IF action \in {"update", "insert"} THEN params.index ELSE NoIndex,
         curr_value |-> IF action = "update" THEN params.curr_value ELSE None,
         curr_value_format |-> IF action = "update" THEN params.curr_value_format ELSE "yaml"]

\* Yedit.__init__ and the yamlfile.load() of run_ansible: both read the file,
\* the second one decides. No file or an empty one leaves the {} of __init__;
\* a torn text is taken to be rejected by the parser.
Load(p) ==
    /\ proc[p].pc = "start"
    /\ LET me == proc[p]
           contents == me.params.src /\ Exists(filename) /\ ~IsEmpty(ContentOf(filename))
       IN  IF ~contents
           THEN Step(p, fs.names, fs.inodes,
                     [me EXCEPT !.pc = "loaded", !.yaml_dict = EmptyDict, !.obj = 1])
           ELSE IF ~IsComplete(ContentOf(filename))
           THEN Step(p, fs.names, fs.inodes, Failed(p, "YeditException"))
           ELSE Step(p, fs.names, fs.inodes,
                     [me EXCEPT !.pc = "loaded", !.yaml_dict = ContentOf(filename)[1].text,
                                !.obj = 1])

\* run_ansible, state == 'present', up to the call of process_edits
Begin(p) ==
    /\ proc[p].pc = "loaded"
    /\ LET me == proc[p]
           params == me.params
           given == Truthy(params.content)
           content == parse_value(params.content, "yaml")
           edits == IF ~IsNone(params.value) THEN <<SingleEdit(params)>>
                    ELSE IF params.edits_given THEN params.edits
                    ELSE <<>>
           loaded == IF given
                     THEN [me EXCEPT !.yaml_dict = content.ret, !.obj = @ + 1]
                     ELSE me
       IN  IF given /\ content.exc # ""
           THEN Step(p, fs.names, fs.inodes, Failed(p, content.exc))
           ELSE IF given /\ PyEq(me.yaml_dict, content.ret) /\ IsNone(params.value)
           THEN Step(p, fs.names, fs.inodes, [me EXCEPT !.pc = "done"])
           ELSE IF edits # <<>>
           THEN Step(p, fs.names, fs.inodes,
                     [loaded EXCEPT !.pc = "edits", !.edits = edits, !.i = 1])
           ELSE IF params.src
           THEN Step(p, fs.names, fs.inodes, [loaded EXCEPT !.pc = "write"])
           ELSE Step(p, fs.names, fs.inodes, [loaded EXCEPT !.pc = "done"])

\* the method an edit selects, applied to the tree; value and curr are what
\* parse_value makes of the edit's value and curr_value
Dispatch(tree, edit, value, curr) ==
    IF value.exc # "" THEN Fail(value.exc, tree)
    ELSE IF edit.action = "update"
    THEN IF curr.exc # "" THEN Fail(curr.exc, tree)
         ELSE update(tree, edit.key, value.ret, edit.index,
                     get_curr_value(curr.ret, edit.curr_value_format))
    ELSE IF edit.action = "append" THEN append(tree, edit.key, value.ret)
    ELSE IF edit.action = "insert" THEN insert(tree, edit.key, value.ret, edit.index)
    ELSE put(tree, edit.key, value.ret)

\* the body of the loop of process_edits up to the method's return
Apply(tree, edit) ==
    Dispatch(tree, edit, parse_value(edit.value, edit.value_type),
             parse_value(edit.curr_value, ""))

\* results with an entry for every edit, changed or not
Recorded_every(me, edit, r) ==
    Append(me.results,
           [key |-> edit.key, obj |-> IF r.fresh THEN me.obj + 1 ELSE me.obj, edit |-> r.tree])

\* results after an edit with outcome r: an entry whose object is still the
\* one self.yaml_dict is bound to shows what the edit did to it in place
Recorded(me, edit, r) ==
    LET obj == IF r.fresh THEN me.obj + 1 ELSE me.obj
        seen == [j \in 1..Len(me.results) |->
                    IF me.results[j].obj = obj
                    THEN [me.results[j] EXCEPT !.edit = r.tree]
                    ELSE me.results[j]]
    IN  IF r.changed
        THEN Append(seen, [key |-> edit.key, obj |-> obj, edit |-> r.tree])
        ELSE seen

\* the loop goes on after an edit with outcome r
Carried(me, edit, r) ==
    [me EXCEPT !.yaml_dict = r.tree, !.i = @ + 1,
               !.obj = IF r.fresh THEN @ + 1 ELSE @,
               !.results = Recorded(me, edit, r)]

\* the process after the edit with outcome r, an exception swallowed and the
\* loop carried on
Edited_carry_on(p, me, edit, r) ==
    IF r.exc # ""
    THEN [Carried(me, edit, r) EXCEPT !.raised = IF @ = 0 THEN me.i ELSE @]
    ELSE Carried(me, edit, r)

\* the process after the edit with outcome r: an exception leaves the loop,
\* process_edits and run_ansible
Edited(p, me, edit, r) ==
    IF r.exc # ""
    THEN [Failed(p, r.exc) EXCEPT !.yaml_dict = r.tree, !.raised = me.i,
                                  !.obj = IF r.fresh THEN @ + 1 ELSE @]
    ELSE Carried(me, edit, r)

\* one iteration of the loop of process_edits
Edit(p) ==
    /\ proc[p].pc = "edits"
    /\ proc[p].i <= Len(proc[p].edits)
    /\ Step(p, fs.names, fs.inodes,
            Edited(p, proc[p], proc[p].edits[proc[p].i],
                   Apply(proc[p].yaml_dict, proc[p].edits[proc[p].i])))

\* the return of process_edits, the write whatever the batch changed
EditsDone_always_write(p) ==
    /\ proc[p].pc = "edits"
    /\ proc[p].i > Len(proc[p].edits)
    /\ LET me == proc[p]
           changed == Len(me.results) > 0
       IN  Step(p, fs.names, fs.inodes,
                [me EXCEPT !.changed = changed,
                           !.pc = IF me.params.src THEN "write" ELSE "done"])

\* the return of process_edits and what run_ansible does with it
EditsDone(p) ==
    /\ proc[p].pc = "edits"
    /\ proc[p].i > Len(proc[p].edits)
    /\ LET me == proc[p]
           changed == Len(me.results) > 0
       IN  Step(p, fs.names, fs.inodes,
                [me EXCEPT !.changed = changed,
                           !.pc = IF changed /\ me.params.src THEN "write" ELSE "done"])

\* Yedit.write up to the call of _write: the backup is a copy of the file
Write(p) ==
    /\ proc[p].pc = "write"
    /\ LET me == proc[p]
           called == [me EXCEPT !.writes = @ + 1]
           id == IF Exists(backup_filename) THEN fs.names[backup_filename] ELSE FreeId
       IN  IF ~me.params.src
           THEN Step(p, fs.names, fs.inodes, [Failed(p, "YeditException") EXCEPT !.writes = @ + 1])
           ELSE IF me.params.backup /\ Exists(filename)
           THEN Step(p, [fs.names EXCEPT ![backup_filename] = id],
                     [fs.inodes EXCEPT ![id] = [NewInode EXCEPT !.chunks = ContentOf(filename)]],
                     [called EXCEPT !.pc = "w_stat"])
           ELSE Step(p, fs.names, fs.inodes, [called EXCEPT !.pc = "w_stat"])

\* _write and write have returned: run_ansible returns
Exit(p) ==
    /\ proc[p].pc = "w_done"
    /\ proc[p].params.state = "present"
    /\ Step(p, fs.names, fs.inodes, [proc[p] EXCEPT !.pc = "done", !.changed = TRUE])

----------------------------------------------------------------------------
(* Specification SpecRun: one invocation of the module with state=present   *)
(* on a directory in which the target file exists or not.                   *)

MaxEdits == 2

PutEdit(key, text) == [NoEdit EXCEPT !.key = key, !.value = PyStr(text)]

\* the batch of EXAMPLES: a.b.c = d, then a.b.c.d = e
ExamplesEdits ==
    << PutEdit(<<"a", ".", "b", ".", "c">>, "d"),
       PutEdit(<<"a", ".", "b", ".", "c", ".", "d">>, "e") >>

EditPool ==
    { ExamplesEdits[1], ExamplesEdits[2],
      PutEdit(<<"x">>, "1"),
      PutEdit(<<"x", ".", "y">>, "2"),
      PutEdit(<<"a">>, "1"),
      [PutEdit(<<"a">>, "d") EXCEPT !.action = "append"],
      [PutEdit(<<"a">>, "d") EXCEPT !.value_type = "bool"] }

Batches == UNION { [1..n -> EditPool] : n \in 0..MaxEdits }

RunDocs == { EmptyDict, MkDict(<< <<"a", PyInt("1")>> >>) }

\* src alone, src with backup, src with content, content alone (a mapping of
\* a scalar, a mapping of a sequence)
Callers ==
    { [NoParams EXCEPT !.state = "present", !.src = TRUE],
      [NoParams EXCEPT !.state = "present", !.src = TRUE, !.backup = TRUE],
      [NoParams EXCEPT !.state = "present", !.src = TRUE,
                       !.content = MkDict(<< <<"a", PyInt("1")>> >>)],
      [NoParams EXCEPT !.state = "present", !.content = MkDict(<< <<"b", PyInt("2")>> >>)],
      [NoParams EXCEPT !.state = "present",
                       !.content = MkDict(<< <<"a", MkList(<<PyInt("1"), PyInt("2")>>)>> >>)] }

\* the single-edit forms: key and value with at most one action flag
Singles ==
    LET kv(c) == [c EXCEPT !.key = <<"a">>, !.value = PyStr("7")]
    IN  { kv(c) : c \in Callers }
        \cup { [kv(c) EXCEPT !.append = TRUE] : c \in Callers }
        \cup { [kv(c) EXCEPT !.insert = TRUE] : c \in Callers }
        \cup { [kv(c) EXCEPT !.update = TRUE] : c \in Callers }

Invocations ==
    Callers
    \cup { [c EXCEPT !.edits = b, !.edits_given = TRUE] : c \in Callers, b \in Batches }
    \cup Singles

InitRun ==
    /\ yaml_dict = None /\ pc = "" /\ last = NoCall
    /\ \/ fs = NoFs
       \/ \E orig \in RunDocs :
             fs = [names |-> [n \in Names |-> IF n = filename THEN 1 ELSE 0],
                   inodes |-> [i \in 1..NInodes |-> IF i = 1 THEN FileOf(orig) ELSE FreeInode],
                   orig |-> orig]
    /\ \E params \in Invocations :
          proc = [p \in Procs |-> IF p = 1 THEN [Off EXCEPT !.pc = "start", !.params = params]
                                  ELSE Off]

NextRun ==
    \E p \in Procs :
        \/ Load(p) \/ Begin(p) \/ Edit(p) \/ EditsDone(p) \/ Write(p)
        \/ Stat(p) \/ Open(p) \/ Flock(p) \/ WriteChunk(p) \/ Fsync(p)
        \/ Unlock(p) \/ Rename(p) \/ DirSync(p) \/ Exit(p)

SpecRun == InitRun /\ [][NextRun]_vars

\* the target file is as it was before the invocation
Untouched == IF IsNone(fs.orig) THEN ~Exists(filename) ELSE Holds(fs.orig)

\* C5: in an invocation with state=present Yedit.write is called at most
\* once, only when every edit of the batch has been applied, and, when edits
\* are given, only if an edit reported a change and src is set.
C5_WriteOnceAfterEdits ==
    \A p \in Procs :
        /\ proc[p].writes <= 1
        /\ proc[p].writes = 1 =>
              /\ proc[p].i = Len(proc[p].edits) + 1 \/ proc[p].edits = <<>>
              /\ proc[p].raised = 0
              /\ proc[p].edits # <<>> => Len(proc[p].results) > 0 /\ proc[p].params.src

\* a batch of two edits has been applied, has changed the tree and has been
\* written, once
C5_Witness ==
    /\ proc[1].pc = "done" /\ proc[1].writes = 1 /\ proc[1].renamed
    /\ Len(proc[1].edits) = 2 /\ Len(proc[1].results) >= 1

\* C6: when an edit of a batch raises, at whatever position, the target file
\* stays as it was before the invocation, whatever the earlier edits have
\* done to the tree in memory.
C6_NoWriteOnError ==
    \A p \in Procs : proc[p].raised > 0 => Untouched /\ proc[p].writes = 0

\* the second edit of a batch has raised after the first one has changed the
\* tree in memory; the file exists and holds what it held
C6_Witness ==
    /\ proc[1].pc = "failed" /\ proc[1].raised = 2 /\ Len(proc[1].results) = 1
    /\ proc[1].params.src /\ ~IsNone(fs.orig) /\ Holds(fs.orig)
    /\ ~PyEq(proc[1].yaml_dict, fs.orig)

\* C12 (as claimed): an invocation with state=present whose src names a file
\* that does not exist tolerates that: once it has edits or content to write,
\* the write protocol does not fail and ends with the file at src holding the
\* serialized tree.
C12_MissingFileCreated ==
    \A p \in Procs :
        (/\ proc[p].params.src /\ IsNone(fs.orig) /\ proc[p].writes = 1
         /\ \/ ~IsNone(proc[p].params.value)
            \/ proc[p].params.edits # <<>>
            \/ Truthy(proc[p].params.content)) =>
            /\ proc[p].pc # "failed"
            /\ proc[p].pc = "done" => Holds(proc[p].yaml_dict)

\* the tree the edits of process p start from: the content when it is given,
\* the document of the file otherwise, {} without a file
Edited0(p) ==
    IF Truthy(proc[p].params.content) THEN proc[p].params.content
    ELSE IF proc[p].params.src /\ ~IsNone(fs.orig) THEN fs.orig
    ELSE EmptyDict

\* process p runs the single-edit form with insert selected and no index, on a
\* path that resolves to a sequence, and the edit has been processed
InsertedNoIndex(p) ==
    /\ ~IsNone(proc[p].params.value)
    /\ proc[p].params.insert /\ ~proc[p].params.update /\ ~proc[p].params.append
    /\ proc[p].params.index.none
    /\ proc[p].edits = <<SingleEdit(proc[p].params)>>
    /\ proc[p].i > 1 \/ proc[p].raised > 0
    /\ IsList(get_entry(Edited0(p), proc[p].params.key, separator).ret)

\* C21 (as claimed): an insert edit for which no index is supplied, in the
\* single-edit form, inserts the value at position 0 of the sequence at path,
\* shifting the existing elements one position later, and reports
\* changed=true.
C21_InsertDefaultIndex ==
    \A p \in Procs :
        InsertedNoIndex(p) =>
            /\ proc[p].raised = 0
            /\ Len(proc[p].results) = 1
            /\ get_entry(proc[p].yaml_dict, proc[p].params.key, separator).ret
                 = ListInsert(get_entry(Edited0(p), proc[p].params.key, separator).ret, 0,
                              parse_value(proc[p].params.value, proc[p].params.value_type).ret)

\* the tree after the first n edits of the batch edits, applied in order to
\* tree, each one to the tree the one before has left
RECURSIVE TreeAfter(_, _, _)
TreeAfter(tree, edits, n) ==
    IF n = 0 THEN tree
    ELSE Apply(TreeAfter(tree, edits, n - 1), edits[n]).tree

\* whether edit j of the batch reports changed=true in that order
ChangedAt(tree, edits, j) == Apply(TreeAfter(tree, edits, j - 1), edits[j]).changed

\* the keys of those of the first n edits that report changed=true, in order
RECURSIVE KeysChanged(_, _, _)
KeysChanged(tree, edits, n) ==
    IF n = 0 THEN <<>>
    ELSE IF ChangedAt(tree, edits, n)
    THEN Append(KeysChanged(tree, edits, n - 1), edits[n].key)
    ELSE KeysChanged(tree, edits, n - 1)

\* process p has processed the first n edits of its batch, none has raised
Processed(p, n) ==
    /\ proc[p].edits # <<>> /\ proc[p].raised = 0
    /\ n = proc[p].i - 1 /\ n >= 0

\* C22: batch processing applies the edits in the order given, each edit
\* seeing the tree left by the previous one; the result list holds exactly one
\* entry, in order, for each edit that reported changed=true, and the changed
\* flag of the batch is true if and only if an edit reported changed=true.
C22_BatchInOrder ==
    \A p \in Procs : \A n \in 0..MaxEdits + 1 :
        Processed(p, n) =>
            /\ proc[p].yaml_dict = TreeAfter(Edited0(p), proc[p].edits, n)
            /\ [j \in 1..Len(proc[p].results) |-> proc[p].results[j].key]
                 = KeysChanged(Edited0(p), proc[p].edits, n)
            /\ proc[p].pc = "done" =>
                  (proc[p].changed <=> \E j \in 1..n : ChangedAt(Edited0(p), proc[p].edits, j))

\* a batch of two edits has been processed: the first one reported
\* changed=false, the second one changed=true, and the result list holds the
\* entry of the second one alone
C22_Witness ==
    /\ proc[1].pc = "done" /\ proc[1].raised = 0 /\ proc[1].changed
    /\ Len(proc[1].edits) = 2 /\ proc[1].i = 3
    /\ ~ChangedAt(Edited0(1), proc[1].edits, 1)
    /\ Len(proc[1].results) = 1
    /\ proc[1].results[1].key = proc[1].edits[2].key
    /\ proc[1].edits[1].key # proc[1].edits[2].key

\* the trees left by those of the first n edits that report changed=true, in
\* order, each as it is when its edit has been applied
RECURSIVE Snapshots(_, _, _)
Snapshots(tree, edits, n) ==
    IF n = 0 THEN <<>>
    ELSE IF ChangedAt(tree, edits, n)
    THEN Append(Snapshots(tree, edits, n - 1), TreeAfter(tree, edits, n))
    ELSE Snapshots(tree, edits, n - 1)

\* C26 (as claimed): each entry of a batch result is a snapshot: the tree
\* recorded for an edit is the tree as it was when that edit had been applied,
\* and the later edits of the batch do not alter it.
C26_ResultsAreSnapshots ==
    \A p \in Procs : \A n \in 0..MaxEdits + 1 :
        Processed(p, n) =>
            [j \in 1..Len(proc[p].results) |-> proc[p].results[j].edit]
              = Snapshots(Edited0(p), proc[p].edits, n)

\* C8: the batch of EXAMPLES, a.b.c = d then a.b.c.d = e, succeeds and leaves
\* a.b.c the mapping {d: e}: once the first edit has set a.b.c to the scalar
\* d, the second one does not raise and replaces d with the mapping.
C8_ExamplesBatch ==
    \A p \in Procs :
        proc[p].edits = ExamplesEdits /\ proc[p].raised # 1 =>
            /\ proc[p].raised = 0
            /\ proc[p].i > 2 =>
                  PyEq(get(proc[p].yaml_dict, ExamplesEdits[1].key).ret,
                       MkDict(<< <<"d", PyStr("e")>> >>))

----------------------------------------------------------------------------
(* Specification Spec: one Yedit object and a caller that calls its methods *)
(* one after the other, at most MaxCalls times; a call that raises ends the *)
(* run.                                                                     *)

MaxCalls == 2

\* the paths the caller uses
Keys ==
    { <<>>,
      <<"a">>, <<"b">>,
      <<"a", ".", "b">>,
      <<"a", "[", "0", "]">>, <<"a", "[", "2", "]">>,
      <<"a", "[", "-", "1", "]">>, <<"a", "[", "-", "2", "]">>, <<"a", "[", "-", "3", "]">>,
      <<"[", "0", "]">>, <<"[", "-", "1", "]">>,
      <<"a", "[", "0", "]", ".", "b">>,
      <<"a", ".", ".", "b">> }   \* not in the grammar

\* the values the caller uses
Values ==
    { None, PyInt("0"), PyInt("1"), PyStr("d"), EmptyList, MkDict(<< <<"b", PyInt("1")>> >>) }

\* the values the caller appends
AppendValues == { PyInt("1"), PyStr("d"), EmptyList }

\* the index arguments the caller uses
Indexes == {NoIndex, Index(0), Index(5)}

\* the documents the engine is constructed with
InitDocs ==
    { EmptyDict,
      MkDict(<< <<"a", MkList(<<PyInt("1"), PyInt("2")>>)>> >>),
      MkDict(<< <<"a", MkDict(<< <<"b", PyInt("1")>> >>)>>, <<"b", None>> >>),
      MkDict(<< <<"a", PyInt("0")>>, <<"b", PyStr("d")>> >>),
      MkList(<<PyInt("1"), MkDict(<< <<"b", PyStr("")>> >>)>>),
      EmptyList }

Init ==
    /\ yaml_dict \in InitDocs
    /\ pc = "ready"
    /\ last = NoCall
    /\ fs = NoFs
    /\ proc = NoProcs

\* the record of a call op(key, value, index) with outcome r
Called(op, key, value, index, r) ==
    [op |-> op, key |-> key, value |-> value, index |-> index, curr |-> None,
     exc |-> r.exc, changed |-> r.changed, ret |-> r.ret, before |-> yaml_dict,
     n |-> last.n + 1,
     again |-> (pc = "returned"), first |-> (pc = "returned" /\ last.changed),
     any |-> (last.any \/ r.changed)]

\* the call op(key, value, index, curr_value) returns or raises with outcome r
Call(op, key, value, index, curr_value, r) ==
    /\ yaml_dict' = r.tree
    /\ last' = [Called(op, key, value, index, r) EXCEPT !.curr = curr_value]
    /\ pc' = "returned"
    /\ UNCHANGED <<fs, proc>>

CanCall == pc = "ready" /\ last.n < MaxCalls

\* the caller repeats the call that has just returned, with the same arguments
CanRepeat(op, key, value) ==
    /\ pc = "returned" /\ ~last.again /\ last.exc = "" /\ last.n < MaxCalls
    /\ last.op = op /\ last.key = key /\ last.value = value

Get(key) ==
    /\ CanCall
    /\ Call("get", key, None, NoIndex, None,
            get(yaml_dict, key))

Put(key, value) ==
    /\ CanCall \/ CanRepeat("put", key, value)
    /\ Call("put", key, value, NoIndex, None,
            put(yaml_dict, key, value))

Delete(key, index, value) ==
    /\ CanCall
    /\ Call("delete", key, value, index, None,
            delete(yaml_dict, key, index, value))

AppendTo(key, value) ==
    /\ CanCall
    /\ Call("append", key, value, NoIndex, None,
            append(yaml_dict, key, value))

\* the caller has read the result and may call again
Return ==
    /\ pc = "returned" /\ last.exc = "" /\ last.n < MaxCalls
    /\ pc' = "ready"
    /\ last' = [NoCall EXCEPT !.n = last.n, !.any = last.any]
    /\ UNCHANGED <<yaml_dict, fs, proc>>

Next ==
    \/ \E key \in Keys : Get(key)
    \/ \E key \in Keys, value \in Values : Put(key, value)
    \/ \E key \in Keys, index \in Indexes, value \in {None, PyStr("a"), PyInt("1")} :
          Delete(key, index, value)
    \/ \E key \in Keys, value \in AppendValues : AppendTo(key, value)
    \/ Return

Spec == Init /\ [][Next]_vars

----------------------------------------------------------------------------
(* Specification SpecOps: one Yedit object, constructed with any root (the  *)
(* file may hold a scalar), and a caller that calls put, update, append,    *)
(* insert, delete and pop one after the other, at most MaxCalls times.      *)

OpsKeys ==
    { <<>>, <<"a">>, <<"a", ".", "b">>, <<"a", "[", "0", "]">>, <<"[", "0", "]">> }

OpsValues == { PyInt("1"), PyInt("7"), EmptyList, MkDict(<< <<"b", PyInt("7")>> >>) }

\* index and curr_value are mutually exclusive
OpsLocators ==
    { <<NoIndex, None>>, <<Index(0), None>>, <<Index(5), None>>,
      <<NoIndex, PyInt("1")>>, <<NoIndex, PyInt("5")>> }

OpsDocs ==
    { EmptyDict,
      None,
      PyInt("1"),
      MkDict(<< <<"a", MkList(<<PyInt("1"), PyInt("2")>>)>> >>),
      MkDict(<< <<"a", MkDict(<< <<"b", PyInt("1")>> >>)>> >>),
      MkList(<<PyInt("1"), PyInt("2")>>) }

InitOps ==
    /\ yaml_dict \in OpsDocs
    /\ pc = "ready"
    /\ last = NoCall
    /\ fs = NoFs
    /\ proc = NoProcs

Update(key, value, index, curr_value) ==
    /\ CanCall
    /\ Call("update", key, value, index, curr_value,
            update(yaml_dict, key, value, index, curr_value))

Insert(key, value, index) ==
    /\ CanCall
    /\ Call("insert", key, value, index, None,
            insert(yaml_dict, key, value, index))

Pop(key, key_or_item) ==
    /\ CanCall
    /\ Call("pop", key, key_or_item, NoIndex, None,
            pop(yaml_dict, key, key_or_item))

NextOps ==
    \/ \E key \in OpsKeys, value \in OpsValues \cup {PyStr("d")} : Put(key, value)
    \/ \E key \in OpsKeys, value \in OpsValues, loc \in OpsLocators :
          Update(key, value, loc[1], loc[2])
    \/ \E key \in OpsKeys, value \in OpsValues : AppendTo(key, value)
    \/ \E key \in OpsKeys, value \in OpsValues, index \in {NoIndex, Index(0)} :
          Insert(key, value, index)
    \/ \E key \in OpsKeys, index \in {NoIndex, Index(0)}, value \in {None, PyStr("a")} :
          Delete(key, index, value)
    \/ \E key \in OpsKeys, key_or_item \in {PyStr("a"), PyStr("b"), PyInt("1")} :
          Pop(key, key_or_item)
    \/ Return

SpecOps == InitOps /\ [][NextOps]_vars

----------------------------------------------------------------------------
(* Specification SpecRT: the static mutator and navigator on one data       *)
(* object.  Upsert calls Yedit.add_entry(data, key, item), Resolve then     *)
(* calls Yedit.get_entry(data, key) with the same key.  The keys are all    *)
(* the paths of at most MaxSteps steps written with the steps of RTSteps.   *)

MaxSteps == 5

\* the steps the paths are written with: mapping keys and sequence indexes
RTSteps == { <<"a">>, <<"b">>, <<"[", "0", "]">>, <<"[", "-", "1", "]">> }

\* the path string of a sequence of steps, a.b[0].a: a key after another step
\* is preceded by the separator
RECURSIVE FormatKey(_, _)
FormatKey(steps, i) ==
    IF i > Len(steps) THEN <<>>
    ELSE (IF i > 1 /\ steps[i][1] # "[" THEN <<separator>> ELSE <<>>)
         \o steps[i] \o FormatKey(steps, i + 1)

RTKeys == UNION { {FormatKey(steps, 1) : steps \in [1..n -> RTSteps]} : n \in 0..MaxSteps }

RTValues == { PyInt("7"), MkDict(<< <<"b", EmptyList>> >>) }

RTDocs ==
    { EmptyDict,
      MkDict(<< <<"a", MkList(<<MkList(<<PyInt("1"), MkDict(<< <<"b", MkList(<<None>>)>> >>)>>),
                                 PyStr("d")>>)>>,
                <<"b", PyInt("0")>> >>),
      MkList(<<MkList(<<MkList(<<MkList(<<MkList(<<PyInt("1")>>)>>)>>)>>),
               MkDict(<< <<"a", MkDict(<< <<"a", EmptyList>> >>)>> >>)>>) }

InitRT ==
    /\ yaml_dict \in RTDocs
    /\ pc = "ready"
    /\ last = NoCall
    /\ fs = NoFs
    /\ proc = NoProcs

Upsert(key, item) ==
    /\ pc = "ready"
    /\ LET r == add_entry(yaml_dict, key, item, separator)
       IN  /\ yaml_dict' = r.data
           /\ last' = [NoCall EXCEPT !.op = "add_entry", !.key = key, !.value = item,
                                     !.exc = r.exc, !.ret = r.ret, !.before = yaml_dict,
                                     !.n = 1]
    /\ pc' = "returned"
    /\ UNCHANGED <<fs, proc>>

Resolve ==
    /\ pc = "returned" /\ last.op = "add_entry"
    /\ LET r == get_entry(yaml_dict, last.key, separator)
       IN  last' = [last EXCEPT !.op = "get_entry", !.exc = r.exc, !.ret = r.ret,
                                !.before = yaml_dict, !.n = 2, !.again = TRUE,
                                !.first = (last.exc = "" /\ ~IsNone(last.ret))]
    /\ pc' = "done"
    /\ UNCHANGED <<yaml_dict, fs, proc>>

NextRT ==
    \/ \E key \in RTKeys, item \in RTValues : Upsert(key, item)
    \/ Resolve

SpecRT == InitRT /\ [][NextRT]_vars

----------------------------------------------------------------------------
(* Specification SpecLast: add_entry called once with a path that ends in a *)
(* sequence index, on a sequence of 0 to MaxLen elements at the root or     *)
(* under the key a, with every index from -MaxLen - 1 to MaxLen + 1.        *)

MaxLen == 2

\* str(n) for n >= 0, one character per digit
RECURSIVE IndexText(_)
IndexText(n) ==
    LET chars == <<"0", "1", "2", "3", "4", "5", "6", "7", "8", "9">>
    IN  IF n < 10 THEN <<chars[n + 1]>>
        ELSE IndexText(n \div 10) \o <<chars[(n % 10) + 1]>>

\* [i] as a path string
IndexKey(i) ==
    <<"[">> \o (IF i < 0 THEN <<"-">> \o IndexText(0 - i) ELSE IndexText(i)) \o <<"]">>

LastKeys ==
    { IndexKey(i) : i \in (0 - MaxLen - 1)..(MaxLen + 1) }
    \cup { <<"a">> \o IndexKey(i) : i \in (0 - MaxLen - 1)..(MaxLen + 1) }

\* the sequences [1, .., n]
Counted(n) == MkList([j \in 1..n |-> IF j = 1 THEN PyInt("1") ELSE PyStr("d")])

LastDocs ==
    { Counted(n) : n \in 0..MaxLen }
    \cup { MkDict(<< <<"a", Counted(n)>> >>) : n \in 0..MaxLen }

InitLast ==
    /\ yaml_dict \in LastDocs
    /\ pc = "ready"
    /\ last = NoCall
    /\ fs = NoFs
    /\ proc = NoProcs

NextLast ==
    \/ \E key \in LastKeys, item \in RTValues : Upsert(key, item)
    \/ Resolve

SpecLast == InitLast /\ [][NextLast]_vars

\* the container the last step of key_indexes works on
RECURSIVE Parent(_, _)
Parent(data, key_indexes) ==
    IF Len(key_indexes) <= 1 THEN data
    ELSE IF Head(key_indexes).dict_key # ""
    THEN Parent(DictGet(data, Head(key_indexes).dict_key), Tail(key_indexes))
    ELSE Parent(ListGet(data, int(Head(key_indexes).arr_ind)), Tail(key_indexes))

\* the index of the last step of the path of the last call
LastIndex == int(parse_key(last.key, separator)[Len(parse_key(last.key, separator))].arr_ind)

\* the sequence the last step of the last call works on, before and after it
SeqBefore == Parent(last.before, parse_key(last.key, separator))
SeqAfter == Parent(yaml_dict, parse_key(last.key, separator))

\* add_entry has been called with a path whose last step is an index into a
\* sequence
UpsertedAtIndex ==
    /\ last.op = "add_entry"
    /\ parse_key(last.key, separator) # <<>>
    /\ parse_key(last.key, separator)[Len(parse_key(last.key, separator))].arr_ind # <<>>
    /\ IsList(SeqBefore)

\* C24 (as claimed): the terminal sequence-index step of add_entry.  An index within the
\* bounds replaces that element and leaves the length unchanged; an index
\* equal to the length appends exactly one element; any other index (greater
\* than the length, negative beyond -length, any index but 0 on an empty
\* sequence) fails and leaves the sequence unchanged: a sequence never grows
\* by more than one element and is never padded.
C24_TerminalIndex ==
    UpsertedAtIndex =>
        /\ InRange(PyLen(SeqBefore), LastIndex) =>
              /\ last.exc = ""
              /\ SeqAfter = ListSet(SeqBefore, LastIndex, last.value)
              /\ PyLen(SeqAfter) = PyLen(SeqBefore)
        /\ LastIndex = PyLen(SeqBefore) =>
              /\ last.exc = ""
              /\ SeqAfter = ListAppend(SeqBefore, last.value)
        /\ (~InRange(PyLen(SeqBefore), LastIndex) /\ LastIndex # PyLen(SeqBefore)) =>
              /\ last.exc # ""
              /\ yaml_dict = last.before
        /\ PyLen(SeqAfter) <= PyLen(SeqBefore) + 1

----------------------------------------------------------------------------
(* Properties of the engine, specification Spec *)

\* whether every step of key_indexes addresses an entry that is in the tree: a
\* key of a dict, an index within the bounds of a list
RECURSIVE Present(_, _)
Present(data, key_indexes) ==
    IF key_indexes = <<>> THEN TRUE
    ELSE LET arr_ind == Head(key_indexes).arr_ind
             dict_key == Head(key_indexes).dict_key
         IN  IF dict_key # ""
             THEN /\ IsDict(data) /\ HasKey(data, dict_key)
                  /\ Present(DictGet(data, dict_key), Tail(key_indexes))
             ELSE /\ IsList(data) /\ InRange(PyLen(data), int(arr_ind))
                  /\ Present(ListGet(data, int(arr_ind)), Tail(key_indexes))

\* whether a mapping-key step of key_indexes[:-1] finds an existing entry that
\* is a scalar
RECURSIVE ScalarOnPath(_, _)
ScalarOnPath(data, key_indexes) ==
    IF Len(key_indexes) <= 1 THEN FALSE
    ELSE LET arr_ind == Head(key_indexes).arr_ind
             dict_key == Head(key_indexes).dict_key
         IN  IF dict_key # ""
             THEN /\ IsDict(data) /\ HasKey(data, dict_key)
                  /\ \/ ~IsContainer(DictGet(data, dict_key))
                     \/ ScalarOnPath(DictGet(data, dict_key), Tail(key_indexes))
             ELSE /\ IsList(data) /\ InRange(PyLen(data), int(arr_ind))
                  /\ ScalarOnPath(ListGet(data, int(arr_ind)), Tail(key_indexes))

\* C1: put is idempotent.  When put(path, v) has reported changed=true and the
\* caller repeats put(path, v) at once, the second call returns without an
\* exception, reports changed=false and leaves the tree as the first call left it.
C1_PutIdempotent ==
    (last.op = "put" /\ last.again /\ last.first) =>
        /\ last.exc = ""
        /\ ~last.changed
        /\ yaml_dict = last.before

\* a put that changed the tree at a path below the root has been repeated
C1_Witness ==
    /\ last.op = "put" /\ last.again /\ last.first
    /\ Len(parse_key(last.key, separator)) >= 2
    /\ ~last.changed

\* C7 (as claimed): a put of a value other than None whose path has an
\* intermediate mapping-key step that finds an existing scalar raises the
\* path-conflict error (YeditException) and leaves the tree unchanged.
C7_ScalarNeverOverwritten ==
    (/\ last.op = "put" /\ ~IsNone(last.value)
     /\ valid_key(last.key, separator)
     /\ ScalarOnPath(last.before, parse_key(last.key, separator))) =>
        /\ last.exc = "YeditException"
        /\ yaml_dict = last.before

\* C9 (as claimed): delete of a path that is not in the tree returns
\* changed=false without raising and leaves the tree identical.
C9_DeleteMissingIsNoop ==
    (/\ last.op = "delete"
     /\ valid_key(last.key, separator)
     /\ ~Present(last.before, parse_key(last.key, separator))) =>
        /\ last.exc = ""
        /\ ~last.changed
        /\ yaml_dict = last.before

\* C10 (as claimed): delete(path, index) of a path below the root that resolves
\* to a sequence, with index out of the bounds of that sequence, returns
\* changed=false and leaves the tree (and the sequence) unchanged.
C10_DeleteIndexOutOfBounds ==
    (/\ last.op = "delete" /\ last.key # <<>>
     /\ valid_key(last.key, separator)
     /\ Present(last.before, parse_key(last.key, separator))
     /\ IsList(get_entry(last.before, last.key, separator).ret)
     /\ ~last.index.none
     /\ ~InRange(PyLen(get_entry(last.before, last.key, separator).ret), last.index.i)) =>
        /\ last.exc = ""
        /\ ~last.changed
        /\ yaml_dict = last.before

\* what the path of the last call resolved to before the call
Resolved == get_entry(last.before, last.key, separator).ret

\* C11 (as claimed): update raises the type-mismatch error whenever the path
\* resolves to a value that is neither a mapping nor a sequence, and whenever
\* it resolves to a mapping and the value supplied is not a mapping; it never
\* returns changed=false there.
C11_UpdateTypeMismatch ==
    (/\ last.op = "update"
     /\ \/ ~IsNone(Resolved) /\ ~IsContainer(Resolved)
        \/ IsDict(Resolved) /\ ~IsDict(last.value)) =>
        last.exc = "YeditException"

\* C13 (as claimed): get never raises for a path of the grammar that cannot
\* be followed; it returns None for it, and the whole tree for the root path.
C13_GetNeverRaises ==
    (last.op = "get" /\ (last.key = <<>> \/ valid_key(last.key, separator))) =>
        /\ last.exc = ""
        /\ last.key = <<>> => last.ret = last.before
        /\ (last.key # <<>> /\ ~Present(last.before, parse_key(last.key, separator))) =>
              IsNone(last.ret)

\* C14: get is pure.  Whatever the path and whether it resolves or not, the
\* tree after a call of get is the tree before it.
C14_GetIsPure == last.op = "get" => yaml_dict = last.before

\* a get of a path of two steps that does not resolve in a mapping
C14_Witness ==
    /\ last.op = "get" /\ last.exc = "" /\ IsNone(last.ret)
    /\ IsDict(last.before)
    /\ valid_key(last.key, separator) /\ Len(parse_key(last.key, separator)) = 2
    /\ ~Present(last.before, parse_key(last.key, separator))

\* C15 (as claimed): get, put and delete surface a path that is not in the
\* grammar as an invalid-path error, and leave the tree alone.
C15_InvalidPathRaises ==
    (/\ last.op \in {"get", "put", "delete"}
     /\ last.key # <<>> /\ ~valid_key(last.key, separator)) =>
        /\ last.exc = "YeditException"
        /\ yaml_dict = last.before

\* C16: the root invariant.  Whatever the root the object starts with, once
\* a call of put, update, append, insert, delete or pop has reported
\* changed=true the root is a mapping or a sequence; and a put at the root
\* path with a scalar value reports changed=false and leaves the tree as it is.
C16_RootInvariant ==
    /\ last.any => IsContainer(yaml_dict)
    /\ (last.op = "put" /\ last.key = <<>> /\ ~IsContainer(last.value)) =>
          /\ last.exc = ""
          /\ ~last.changed
          /\ yaml_dict = last.before

\* a put at the root path has been refused for a scalar value after an
\* earlier call changed the tree
C16_Witness ==
    /\ last.op = "put" /\ last.key = <<>> /\ ~IsContainer(last.value)
    /\ last.n = 2 /\ last.any /\ ~last.changed
    /\ ~PyEq(last.value, last.before)

\* the entry one step addresses in data, None if there is none
Child(data, step) ==
    IF step.dict_key # ""
    THEN IF IsDict(data) /\ HasKey(data, step.dict_key) THEN DictGet(data, step.dict_key)
         ELSE None
    ELSE IF IsList(data) /\ InRange(PyLen(data), int(step.arr_ind))
         THEN ListGet(data, int(step.arr_ind))
         ELSE None

\* whether the indexes i and j address the same element of a list of length n
SameElement(i, j, n) == i = j \/ (i < 0 /\ i + n = j) \/ (j < 0 /\ j + n = i)

\* whether the paths p and q diverge: at their first different step they
\* address different keys, or elements of a sequence that are different both
\* in the tree before and in the tree after; neither is a prefix of the other
RECURSIVE Diverges(_, _, _, _)
Diverges(before, after, p, q) ==
    IF p = <<>> \/ q = <<>> THEN FALSE
    ELSE IF Head(p) = Head(q)
    THEN Diverges(Child(before, Head(p)), Child(after, Head(p)), Tail(p), Tail(q))
    ELSE IF Head(p).arr_ind # <<>> /\ Head(q).arr_ind # <<>>
    THEN /\ ~SameElement(int(Head(p).arr_ind), int(Head(q).arr_ind), PyLen(before))
         /\ ~SameElement(int(Head(p).arr_ind), int(Head(q).arr_ind), PyLen(after))
    ELSE TRUE

\* the paths of Keys that diverge from the path of the last call
Unrelated ==
    { q \in Keys :
        /\ q # <<>> /\ valid_key(q, separator)
        /\ last.key # <<>> /\ valid_key(last.key, separator)
        /\ Diverges(last.before, yaml_dict,
                    parse_key(last.key, separator), parse_key(q, separator)) }

\* whether no index step of key_indexes counts from the end
FromFront(key_indexes) ==
    \A i \in 1..Len(key_indexes) :
        key_indexes[i].arr_ind = <<>> \/ Head(key_indexes[i].arr_ind) # "-"

\* whether the path q resolves after the last call to what it resolved to
\* before it
Undisturbed(q) ==
    get_entry(last.before, q, separator).exc = "" =>
        /\ get_entry(yaml_dict, q, separator).exc = ""
        /\ get_entry(yaml_dict, q, separator).ret = get_entry(last.before, q, separator).ret

\* C17 (as claimed): put does not disturb unrelated content.  After a put
\* that succeeded, every path that diverges from its path resolves to what it
\* resolved to before; after a put that raised or reported changed=false the
\* whole tree is as it was.
C17_PutFrame ==
    last.op = "put" =>
        /\ (last.exc # "" \/ ~last.changed) => yaml_dict = last.before
        /\ \A q \in Unrelated : Undisturbed(q)

\* C17 (amended): the same for the diverging paths whose index steps count
\* from the front.  (An index that counts from the end addresses another
\* element once the put has appended to the sequence.)
C17_PutFrameFromFront ==
    last.op = "put" =>
        /\ (last.exc # "" \/ ~last.changed) => yaml_dict = last.before
        /\ \A q \in Unrelated : FromFront(parse_key(q, separator)) => Undisturbed(q)

\* a put has changed the tree and a path that diverges from its path, with
\* indexes from the front, resolves to a value
C17_Witness ==
    /\ last.op = "put" /\ last.changed
    /\ Len(parse_key(last.key, separator)) >= 2
    /\ \E q \in Unrelated :
          /\ FromFront(parse_key(q, separator))
          /\ ~IsNone(get_entry(last.before, q, separator).ret)

\* what the path of the last call resolves to after it
ResolvedAfter == get_entry(yaml_dict, last.key, separator).ret

\* the last call is an append whose path resolved without an error before it
AppendCalled == last.op = "append" /\ get_entry(last.before, last.key, separator).exc = ""

\* an existing sequence s becomes s followed by value, changed=true
AppendedToSequence ==
    (AppendCalled /\ IsList(Resolved)) =>
        /\ last.exc = "" /\ last.changed
        /\ ResolvedAfter = ListAppend(Resolved, last.value)

\* a non-sequence value: changed=false and the tree is unchanged
AppendDeclined ==
    (AppendCalled /\ ~IsNone(Resolved) /\ ~IsList(Resolved)) =>
        /\ last.exc = "" /\ ~last.changed
        /\ yaml_dict = last.before

AppendedToMade(made) ==
    IF made.exc # "" THEN last.exc = made.exc /\ yaml_dict = last.before
    ELSE IF ~made.changed THEN last.exc = "" /\ ~last.changed /\ yaml_dict = last.before
    ELSE /\ last.exc = "" /\ last.changed
         /\ ResolvedAfter = MkList(<<last.value>>)

UpdateSequenceCalled ==
    /\ last.op = "update"
    /\ get_entry(last.before, last.key, separator).exc = ""
    /\ IsList(Resolved)

\* the index the claim locates in the sequence s: the position of curr_value
\* when it is supplied and an element of s, the explicit index when no
\* curr_value is supplied, none otherwise
Located(s, index, curr_value) ==
    IF IsNone(curr_value) THEN index
    ELSE IF ListIndex(s, curr_value) # 0 THEN Index(ListIndex(s, curr_value) - 1)
    ELSE NoIndex

\* what the claim requires of an update of the sequence s with index ind
UpdatedAsClaimed(s, ind) ==
    IF ~ind.none
    THEN (InRange(PyLen(s), ind.i) /\ ~PyEq(ListGet(s, ind.i), last.value)) =>
            /\ last.exc = "" /\ last.changed
            /\ ResolvedAfter = ListSet(s, ind.i, last.value)
    ELSE /\ last.exc = ""
         /\ IF ListIndex(s, last.value) # 0
            THEN ~last.changed /\ yaml_dict = last.before
            ELSE last.changed /\ ResolvedAfter = ListAppend(s, last.value)

\* C19 (as claimed): update on a sequence locates the target index from
\* curr_value (by equality) or from the explicit index; a located element
\* that differs from value is replaced (changed=true); when no index is
\* located, also when curr_value is supplied but is not an element, value is
\* searched for: present is a no-op, absent is appended (changed=true).
C19_UpdateSequence ==
    UpdateSequenceCalled => UpdatedAsClaimed(Resolved, Located(Resolved, last.index, last.curr))

\* the last call is a delete at the root of a mapping with a value that is not
\* one of its keys
RootKeyNotFound ==
    /\ last.op = "delete" /\ last.key = <<>>
    /\ IsDict(last.before)
    /\ last.value.ty = "str" /\ ~HasKey(last.before, last.value.sc)

\* the last call is a delete at the root of a sequence with an index outside
\* its bounds
RootIndexNotFound ==
    /\ last.op = "delete" /\ last.key = <<>>
    /\ IsList(last.before)
    /\ IsNone(last.value)
    /\ ~last.index.none /\ ~InRange(PyLen(last.before), last.index.i)

\* C20 (as claimed): delete at the root path never raises for not-found
\* conditions: with a value that is not a key of a mapping root, and with an
\* index outside the bounds of a sequence root, it reports changed=false and
\* leaves the tree unchanged.
C20_RootDeleteNotFound ==
    (RootKeyNotFound \/ RootIndexNotFound) =>
        /\ last.exc = ""
        /\ ~last.changed
        /\ yaml_dict = last.before

\* the last call is delete(path) with no index and no value, on a path that
\* is present in the tree
DeletedPresent ==
    /\ last.op = "delete" /\ last.key # <<>>
    /\ valid_key(last.key, separator)
    /\ last.index.none /\ IsNone(last.value)
    /\ Present(last.before, parse_key(last.key, separator))

\* the entry the last step of the path of the last call addresses is gone:
\* the key is no longer in the mapping, the sequence is one element shorter
Gone ==
    IF parse_key(last.key, separator)[Len(parse_key(last.key, separator))].dict_key # ""
    THEN ~Present(yaml_dict, parse_key(last.key, separator))
    ELSE PyLen(SeqAfter) = PyLen(SeqBefore) - 1

\* C27 (as claimed): delete(path) with no index and no value removes every
\* addressed entry that is present in the tree: whenever the terminal key is
\* in its parent mapping (or the terminal index within the bounds of its
\* parent sequence), whatever value is stored there, null included, delete
\* reports changed=true and afterwards the key (or element) is gone.
C27_DeleteRemovesPresent ==
    DeletedPresent =>
        /\ last.exc = ""
        /\ last.changed
        /\ Gone

====
